---------------------------- MODULE Spec2Model ----------------------------
(***************************************************************************)
(* A model of the AI-coach proxy: the CORS origin guard, the /api/chat     *)
(* relay with its message sanitizer, the /api/track endpoint and the       *)
(* analytics sink (recordEvent).  JavaScript values are tagged records,    *)
(* so that typeof, truthiness, property access and String() are computed   *)
(* the way the interpreter computes them.                                  *)
(***************************************************************************)
EXTENDS Integers, Sequences, FiniteSets, TLC

VARIABLES
  ALLOWED,   \* the origin allow-list (a Set built at start-up)
  pool,      \* TRUE: a pg Pool exists (DATABASE_URL set); FALSE: log only
  apiKey,    \* process.env.OPENAI_API_KEY ("" when unset)
  reqs,      \* the requests received so far, in order of arrival
  events,    \* the analytics events recorded (rows inserted / lines logged)
  san        \* the sanitizer run on its own: inputs, position, results

vars == <<ALLOWED, pool, apiKey, reqs, events, san>>

(***************************************************************************)
(* Bounds of the model.                                                    *)
(***************************************************************************)
\* the number of requests a behaviour receives (all may be in flight at once)
MaxReq == 2
\* the longest `messages` array the sanitizer is run on
MaxMsgs == 3

(***************************************************************************)
(* JavaScript values.                                                      *)
(***************************************************************************)
Undef == [t |-> "undefined"]
Null == [t |-> "null"]
Num(n) == [t |-> "number", v |-> n]
Str(s) == [t |-> "string", v |-> s]
Bool(b) == [t |-> "boolean", v |-> b]
Arr(s) == [t |-> "array", v |-> s]
Obj(f) == [t |-> "object", f |-> f]

\* typeof x
Typeof(x) ==
  IF x.t \in {"null", "array"} THEN "object" ELSE x.t

\* the truthiness of x, as `!x`, `x && ...` and `if (x)` read it
Truthy(x) ==
  CASE x.t \in {"undefined", "null"} -> FALSE
    [] x.t = "number" -> x.v # 0
    [] x.t = "string" -> x.v # ""
    [] x.t = "boolean" -> x.v
    [] OTHER -> TRUE

\* x.k never evaluated on null or undefined here: every use is guarded
Prop(x, k) ==
  IF x.t = "object" /\ k \in DOMAIN x.f THEN x.f[k] ELSE Undef

\* x.k raises a TypeError exactly when x is null or undefined
PropThrows(x) == x.t \in {"undefined", "null"}

\* x?.k
OptProp(x, k) ==
  IF x.t \in {"undefined", "null"} THEN Undef ELSE Prop(x, k)

\* x?.[0]
OptFirst(x) ==
  CASE x.t \in {"undefined", "null"} -> Undef
    [] x.t = "array" -> IF Len(x.v) >= 1 THEN x.v[1] ELSE Undef
    [] x.t = "string" -> IF Len(x.v) >= 1 THEN Str(SubSeq(x.v, 1, 1)) ELSE Undef
    [] OTHER -> Undef

\* x ?? d
Coalesce(x, d) ==
  IF x.t \in {"undefined", "null"} THEN d ELSE x

\* a destructuring default: `{ k = d } = body` takes d only for undefined
Default(x, d) ==
  IF x.t = "undefined" THEN d ELSE x

Digits == <<"0", "1", "2", "3", "4", "5", "6", "7", "8", "9">>

\* String(x), for the values the model draws (numbers are 0..9)
JsString(x) ==
  CASE x.t = "string" -> x.v
    [] x.t = "number" -> Digits[x.v + 1]
    [] x.t = "boolean" -> IF x.v THEN "true" ELSE "false"
    [] x.t = "undefined" -> "undefined"
    [] x.t = "null" -> "null"
    [] x.t = "object" -> "[object Object]"
    [] OTHER -> ""

\* s.slice(0, n)
Slice0(s, n) ==
  IF Len(s) <= n THEN s ELSE SubSeq(s, 1, n)

RECURSIVE Repeat(_, _)
\* the string of n copies of the character c
Repeat(c, n) ==
  IF n = 0 THEN ""
  ELSE IF n = 1 THEN c
  ELSE Repeat(c, n \div 2) \o Repeat(c, n - (n \div 2))

(***************************************************************************)
(* The message sanitizer of the /api/chat handler.                         *)
(***************************************************************************)
\* `if (!Array.isArray(messages)) messages = [];` after the default `[]`
AsArray(messages) ==
  IF Default(messages, Arr(<<>>)).t = "array" THEN Default(messages, Arr(<<>>)).v ELSE <<>>

\* the filter callback without the `m &&` guard: m.role on null raises
KeepUnguarded(m) ==
  IF PropThrows(m) THEN "throw"
  ELSE IF Typeof(Prop(m, "role")) = "string" /\ Typeof(Prop(m, "content")) = "string"
       THEN "keep" ELSE "drop"

\* the filter callback: m && typeof m.role === "string" && typeof m.content === "string"
Keep(m) ==
  IF ~Truthy(m) THEN "drop"
  ELSE IF PropThrows(m) THEN "throw"
  ELSE IF Typeof(Prop(m, "role")) # "string" THEN "drop"
  ELSE IF Typeof(Prop(m, "content")) # "string" THEN "drop"
  ELSE "keep"

\* the map callback: ({ role: m.role, content: String(m.content) })
Turn(m) ==
  [role |-> Prop(m, "role").v, content |-> JsString(Prop(m, "content"))]

RECURSIVE FilterMap(_)
\* messages.filter(...).map(...): the turns kept, or a raise
FilterMap(s) ==
  IF s = <<>> THEN [raised |-> FALSE, turns |-> <<>>]
  ELSE LET k == Keep(Head(s))
           rest == FilterMap(Tail(s))
       IN IF k = "throw" \/ rest.raised THEN [raised |-> TRUE, turns |-> <<>>]
          ELSE IF k = "keep" THEN [raised |-> FALSE, turns |-> <<Turn(Head(s))>> \o rest.turns]
          ELSE rest

\* const clean = messages.filter(...).map(...)
Clean(messages) == FilterMap(AsArray(messages))

\* clean.some((m) => m.role === "system")
HasSystem(turns) == \E i \in 1..Len(turns) : turns[i].role = "system"

\* a sanitizer that overwrites an existing system turn instead of keeping it
InjectSystemAlways(system, turns) ==
  IF Truthy(Default(system, Str("")))
  THEN <<[role |-> "system", content |-> JsString(system)]>> \o turns
  ELSE turns

\* if (system && !clean.some(...)) clean.unshift({ role: "system", content: String(system) })
InjectSystem(system, turns) ==
  IF Truthy(Default(system, Str(""))) /\ ~HasSystem(turns)
  THEN <<[role |-> "system", content |-> JsString(system)]>> \o turns
  ELSE turns

(***************************************************************************)
(* The sanitizer on its own: the inputs are drawn by SanInit, SanFilter    *)
(* runs the filter/map and SanInject the system-turn step.                 *)
(***************************************************************************)
UserHi == Obj([role |-> Str("user"), content |-> Str("hi")])
SystemX == Obj([role |-> Str("system"), content |-> Str("X")])
AssistantEmpty == Obj([role |-> Str("assistant"), content |-> Str("")])

\* the elements a `messages` array is built from
SanElems ==
  { Null, Num(7), Str("x"), Arr(<<>>),
    Obj([content |-> Str("a")]),
    Obj([role |-> Num(1), content |-> Str("a")]),
    Obj([role |-> Str("user"), content |-> Num(5)]),
    UserHi, SystemX, AssistantEmpty }

\* the values of `messages`: absent, not an array, or an array of elements
SanMessages ==
  { Undef, Null, Str("hello"), Num(3), UserHi }
    \cup { Arr(s) : s \in UNION { [1..n -> SanElems] : n \in 0..MaxMsgs } }

\* the values of `system`
SanSystems ==
  { Undef, Null, Str(""), Str("You are a coach"), Num(0), Num(5), Bool(TRUE) }

SanIdle ==
  [pc |-> "idle", system |-> Undef, messages |-> Undef,
   raised |-> FALSE, clean |-> <<>>, out |-> <<>>]

SanFilter ==
  /\ san.pc = "start"
  /\ san' = [san EXCEPT !.pc = "filtered",
                        !.raised = Clean(san.messages).raised,
                        !.clean = Clean(san.messages).turns]
  /\ UNCHANGED <<ALLOWED, pool, apiKey, reqs, events>>

SanInject ==
  /\ san.pc = "filtered"
  /\ san' = [san EXCEPT !.pc = "done",
                        !.out = IF san.raised THEN <<>>
                                ELSE InjectSystem(san.system, san.clean)]
  /\ UNCHANGED <<ALLOWED, pool, apiKey, reqs, events>>

(***************************************************************************)
(* The server: the allow-list, the analytics sink and the two handlers.    *)
(***************************************************************************)
\* new Set([...]) of the CORS section
AllowList ==
  { "https://jiaruilei.github.io", "http://localhost:3000",
    "http://localhost:5173", "http://localhost:5500" }

\* an origin check that accepts any origin starting with an allowed one
OriginAllowedPrefix(origin, allowed) ==
  \/ ~Truthy(origin)
  \/ \E a \in allowed :
       Len(origin.v) >= Len(a) /\ SubSeq(origin.v, 1, Len(a)) = a

\* the cors origin callback: !origin || ALLOWED.has(origin)
OriginAllowed(origin, allowed) ==
  ~Truthy(origin) \/ origin.v \in allowed

NoR == [ok |-> FALSE, status |-> 0, text |-> ""]
NoRow == [event_name |-> "", payload |-> Null]
NoResp == [status |-> 0, body |-> [none |-> TRUE]]

\* a request as it arrives: nothing run yet
NewReq(kind, origin, body, env, draw) ==
  [kind |-> kind, origin |-> origin, body |-> body, env |-> env, draw |-> draw,
   pc |-> "new", handler |-> FALSE, calls |-> 0, r |-> NoR, clean |-> <<>>,
   reply |-> Undef, row |-> NoRow, writes |-> 0, wstate |-> "none",
   sent |-> 0, resp |-> NoResp]

\* res.status(status).json(body): the handler returns with it
Respond(q, status, body) ==
  [q EXCEPT !.pc = "done", !.sent = @ + 1,
            !.resp = [status |-> status, body |-> body]]

\* cb(new Error("Not allowed by CORS")): the request never gets to a handler
Reject(q) ==
  [q EXCEPT !.pc = "rejected", !.sent = @ + 1,
            !.resp = [status |-> 500, body |-> [cors |-> "Not allowed by CORS"]]]

\* the catch block of the handler q runs in
Catch(q) ==
  Respond(q, 500, [error |-> IF q.kind = "chat" THEN "Proxy error" ELSE "track failed"])

\* a recordEvent call that is not awaited: the handler goes on to its response
CallRecordEventNoAwait(q, row) ==
  [q EXCEPT !.row = row, !.writes = @ + 1,
            !.wstate = IF pool THEN "pending" ELSE "done",
            !.pc = "recorded"]

\* `await recordEvent(row)` up to its first suspension: with a pool the insert
\* is in flight, without one the line is logged and the call has returned
CallRecordEvent(q, row) ==
  [q EXCEPT !.row = row, !.writes = @ + 1,
            !.wstate = IF pool THEN "pending" ELSE "done",
            !.pc = IF pool THEN "db" ELSE "recorded"]

\* what the events log holds after request i, now q, called recordEvent
Logged(i, q) ==
  IF q.writes = 1 /\ q.wstate = "done"
  THEN Append(events, [req |-> i, event_name |-> q.row.event_name, payload |-> q.row.payload])
  ELSE events

\* req.body || {}
BodyOf(b) == IF Truthy(b) THEN b ELSE Obj([x \in {} |-> Undef])

\* [...clean].reverse().find((m) => m.role === "user")?.content || ""
LastUser(turns) ==
  IF \E i \in 1..Len(turns) : turns[i].role = "user"
  THEN turns[CHOOSE i \in 1..Len(turns) :
               /\ turns[i].role = "user"
               /\ \A j \in (i+1)..Len(turns) : turns[j].role # "user"].content
  ELSE ""

(***************************************************************************)
(* The upstream completion API, as the relay sees it.                      *)
(***************************************************************************)
\* text.slice(0, 512) of the coach_chat_error payload
BodySampleLen == 512
\* event.slice(0, 64) of the track row
EventNameLen == 64
\* the length of the long upstream error body the model draws
LongBodyLen == 600
\* the length of the long event name the model draws
LongEventLen == 70

TextHi == "{\"choices\":[{\"message\":{\"content\":\"Hi there\"}}]}"
TextNoChoice == "{\"choices\":[]}"
TextHtml == "<html>Bad Gateway</html>"

\* JSON.parse(text) on the bodies the upstream answers with
JSONparse(text) ==
  CASE text = TextHi ->
         [threw |-> FALSE,
          data |-> Obj([choices |-> Arr(<<Obj([message |->
                     Obj([content |-> Str("Hi there")])])>>)])]
    [] text = TextNoChoice ->
         [threw |-> FALSE, data |-> Obj([choices |-> Arr(<<>>)])]
    [] OTHER -> [threw |-> TRUE, data |-> Undef]

\* how the fetch of one request ends: it rejects, or answers (r.ok, r.status, r.text())
UpstreamOutcomes ==
  { [net |-> FALSE, r |-> [ok |-> TRUE, status |-> 200, text |-> x]] :
      x \in {TextHi, TextNoChoice, TextHtml} }
    \cup
  { [net |-> TRUE, r |-> NoR],
    [net |-> FALSE, r |-> [ok |-> FALSE, status |-> 429, text |-> "rate limited"]],
    [net |-> FALSE, r |-> [ok |-> FALSE, status |-> 500,
                            text |-> Repeat("e", LongBodyLen)]] }

(***************************************************************************)
(* POST /api/chat                                                          *)
(***************************************************************************)
\* a handler that goes on to the upstream call without looking at the key
ChatHandlerNoKeyCheck(q) ==
  LET b == BodyOf(q.body)
      c == Clean(Prop(b, "messages"))
  IN IF c.raised THEN Catch(q)
     ELSE [q EXCEPT !.clean = InjectSystem(Prop(b, "system"), c.turns),
                    !.calls = @ + 1, !.pc = "fetch"]

\* the handler up to `await fetch(...)`: the key check, the sanitizer, the call
ChatHandler(q) ==
  IF apiKey = "" THEN Respond(q, 500, [error |-> "Missing OPENAI_API_KEY"])
  ELSE LET b == BodyOf(q.body)
           c == Clean(Prop(b, "messages"))
       IN IF c.raised THEN Catch(q)
          ELSE [q EXCEPT !.clean = InjectSystem(Prop(b, "system"), c.turns),
                         !.calls = @ + 1, !.pc = "fetch"]

\* const reply = data?.choices?.[0]?.message?.content ?? ""
ReplyOf(data) ==
  Coalesce(OptProp(OptProp(OptFirst(OptProp(data, "choices")), "message"), "content"),
           Str(""))

\* the row of the coach_chat_error event
ErrorRow(r) ==
  [event_name |-> "coach_chat_error",
   payload |-> [status |-> r.status, body |-> Slice0(r.text, BodySampleLen)]]

\* the row of the coach_chat event: prompt_len and reply_len of its payload
\* (model, temperature and prompt_sample are copied through and not modelled,
\* nor are the columns taken from the request headers)
ChatRow(clean, reply) ==
  [event_name |-> "coach_chat",
   payload |-> [prompt_len |-> Len(LastUser(clean)), reply_len |-> Len(reply.v)]]

\* a relay that treats a body it cannot parse as an empty completion
ChatAfterFetchLenient(q, out) ==
  IF out.net THEN Catch(q)
  ELSE IF ~out.r.ok
       THEN CallRecordEvent([q EXCEPT !.r = out.r], ErrorRow(out.r))
       ELSE LET reply == IF JSONparse(out.r.text).threw THEN Str("")
                         ELSE ReplyOf(JSONparse(out.r.text).data)
            IN CallRecordEvent([q EXCEPT !.r = out.r, !.reply = reply],
                               ChatRow(q.clean, reply))

\* the handler from the end of the fetch to its next suspension
ChatAfterFetch(q, out) ==
  IF out.net THEN Catch(q)
  ELSE IF ~out.r.ok
       THEN CallRecordEvent([q EXCEPT !.r = out.r], ErrorRow(out.r))
       ELSE IF JSONparse(out.r.text).threw THEN Catch([q EXCEPT !.r = out.r])
            ELSE LET reply == ReplyOf(JSONparse(out.r.text).data)
                 IN CallRecordEvent([q EXCEPT !.r = out.r, !.reply = reply],
                                    ChatRow(q.clean, reply))

(***************************************************************************)
(* POST /api/track                                                         *)
(***************************************************************************)
\* Number(s) on the values of ANALYTICS_SAMPLE, in hundredths
JsNumber(s) ==
  CASE s = "1" -> [nan |-> FALSE, h |-> 100]
    [] s = "0.5" -> [nan |-> FALSE, h |-> 50]
    [] s = "0" -> [nan |-> FALSE, h |-> 0]
    [] s = "" -> [nan |-> FALSE, h |-> 0]
    [] OTHER -> [nan |-> TRUE, h |-> 0]

\* sample < 1 && Math.random() > sample, the draw in hundredths
Skips(env, draw) ==
  LET sample == JsNumber(Coalesce(env, Str("1")).v)
  IN ~sample.nan /\ sample.h < 100 /\ draw > sample.h

\* the row of a track event
TrackRow(b) ==
  [event_name |-> Slice0(Prop(b, "event").v, EventNameLen),
   payload |-> IF Truthy(Prop(b, "payload")) /\ Typeof(Prop(b, "payload")) = "object"
               THEN Prop(b, "payload") ELSE Null]

\* the handler up to `await recordEvent(row)`
TrackHandler(q) ==
  LET b == BodyOf(q.body)
  IN IF ~Truthy(Prop(b, "event")) \/ Typeof(Prop(b, "event")) # "string"
     THEN Respond(q, 400, [error |-> "Missing or invalid 'event' field"])
     ELSE IF Skips(q.env, q.draw)
          THEN Respond(q, 200, [ok |-> TRUE, sampled |-> FALSE])
          ELSE CallRecordEvent(q, TrackRow(b))

(***************************************************************************)
(* The end of the analytics write, and the response after it.              *)
(***************************************************************************)
\* pool.query(...) settles: the row is inserted, or the rejection leaves
\* recordEvent and lands in the handler's catch
DbSettled(q, ok) ==
  IF ok THEN [q EXCEPT !.wstate = "done", !.pc = "recorded"]
  ELSE Catch([q EXCEPT !.wstate = "failed"])

\* the statement after `await recordEvent(...)`
Finish(q) ==
  IF q.kind = "track" THEN Respond(q, 200, [ok |-> TRUE])
  ELSE IF ~q.r.ok THEN Respond(q, q.r.status, [error |-> q.r.text])
  ELSE Respond(q, 200, [reply |-> q.reply])

(***************************************************************************)
(* The requests the model draws.                                           *)
(***************************************************************************)
\* the Origin header: absent, empty, allowed, or foreign
Origins ==
  { Undef, Str(""), Str("https://jiaruilei.github.io"),
    Str("https://jiaruilei.github.io.evil.example") }

UserHello == Obj([role |-> Str("user"), content |-> Str("hello!")])

\* the JSON body of the chat requests: a system prompt and four messages,
\* one of them malformed (the sanitizer's inputs are varied under SanSpec)
ChatBodies ==
  { Obj([system |-> Str("You are a coach"),
         messages |-> Arr(<<UserHi, Null, UserHello, AssistantEmpty>>)]) }

\* the JSON bodies of the track requests (Undef: no body)
TrackBodies ==
  { Undef,
    Obj([event |-> Str(Repeat("n", LongEventLen)), payload |-> Obj([k |-> Num(1)])]) }

\* process.env.ANALYTICS_SAMPLE as a request finds it (Undef: unset) and the
\* value Math.random() returns to it, in hundredths
SampleCases ==
  { [env |-> Undef, draw |-> 75],
    [env |-> Str("0.5"), draw |-> 25], [env |-> Str("0.5"), draw |-> 75] }

(***************************************************************************)
(* The actions.                                                            *)
(***************************************************************************)
Init ==
  /\ ALLOWED = AllowList
  /\ pool \in BOOLEAN
  /\ apiKey \in {"", "sk-test"}
  /\ reqs = <<>>
  /\ events = <<>>
  /\ san = SanIdle

\* a chat request arrives: the origin guard, then the handler up to the fetch
ChatRequest ==
  /\ Len(reqs) < MaxReq
  /\ \E origin \in Origins, body \in ChatBodies :
       LET q == NewReq("chat", origin, body, Undef, 0)
       IN reqs' = Append(reqs,
                         IF OriginAllowed(origin, ALLOWED)
                         THEN ChatHandler([q EXCEPT !.handler = TRUE])
                         ELSE Reject(q))
  /\ UNCHANGED <<ALLOWED, pool, apiKey, events, san>>

\* a track request arrives: the origin guard, then the handler up to the write
TrackRequest ==
  /\ Len(reqs) < MaxReq
  /\ \E origin \in Origins, body \in TrackBodies, c \in SampleCases :
       LET q == NewReq("track", origin, body, c.env, c.draw)
           q2 == IF OriginAllowed(origin, ALLOWED)
                 THEN TrackHandler([q EXCEPT !.handler = TRUE])
                 ELSE Reject(q)
       IN /\ reqs' = Append(reqs, q2)
          /\ events' = Logged(Len(reqs) + 1, q2)
  /\ UNCHANGED <<ALLOWED, pool, apiKey, san>>

\* the fetch of request i ends and its handler runs on
UpstreamSettle(i) ==
  /\ reqs[i].pc = "fetch"
  /\ \E out \in UpstreamOutcomes :
       LET q2 == ChatAfterFetch(reqs[i], out)
       IN /\ reqs' = [reqs EXCEPT ![i] = q2]
          /\ events' = Logged(i, q2)
  /\ UNCHANGED <<ALLOWED, pool, apiKey, san>>

\* the insert of request i ends
DbSettle(i) ==
  /\ reqs[i].pc = "db"
  /\ \E ok \in BOOLEAN :
       LET q2 == DbSettled(reqs[i], ok)
       IN /\ reqs' = [reqs EXCEPT ![i] = q2]
          /\ events' = Logged(i, q2)
  /\ UNCHANGED <<ALLOWED, pool, apiKey, san>>

\* recordEvent has returned to the handler of request i, which responds
AfterRecord(i) ==
  /\ reqs[i].pc = "recorded"
  /\ reqs' = [reqs EXCEPT ![i] = Finish(reqs[i])]
  /\ UNCHANGED <<ALLOWED, pool, apiKey, events, san>>

Next ==
  \/ ChatRequest
  \/ TrackRequest
  \/ \E i \in 1..Len(reqs) : UpstreamSettle(i)
  \/ \E i \in 1..Len(reqs) : DbSettle(i)
  \/ \E i \in 1..Len(reqs) : AfterRecord(i)

Spec == Init /\ [][Next]_vars

\* the sanitizer alone, on every input of SanSystems and SanMessages
SanInit ==
  /\ ALLOWED = AllowList
  /\ pool = FALSE
  /\ apiKey = "sk-test"
  /\ reqs = <<>>
  /\ events = <<>>
  /\ \E system \in SanSystems, messages \in SanMessages :
       san = [SanIdle EXCEPT !.pc = "start", !.system = system, !.messages = messages]

SanNext == SanFilter \/ SanInject

SanSpec == SanInit /\ [][SanNext]_vars

(***************************************************************************)
(* What the claims are stated with.                                        *)
(***************************************************************************)
\* the analytics events recorded for request i
EventsOf(i) == SelectSeq(events, LAMBDA e : e.req = i)

\* the first n characters of s
FirstChars(s, n) == IF Len(s) < n THEN s ELSE SubSeq(s, 1, n)

\* the upstream answered request q (its fetch did not fail at network level)
Answered(q) == q.kind = "chat" /\ q.r.status # 0

\* the bodies that are valid JSON, and choices[0].message.content in each
IsJson(text) == text \in {TextHi, TextNoChoice}
ContentIn(text) == IF text = TextHi THEN "Hi there" ELSE ""

\* the length of the content of the last turn of role "user" (0 if none)
LastUserLen(turns) ==
  LET users == { i \in 1..Len(turns) : turns[i].role = "user" }
  IN IF users = {} THEN 0
     ELSE Len(turns[CHOOSE i \in users : \A j \in users : j <= i].content)

\* the request's `event` is a non-empty string
ValidEvent(q) ==
  /\ q.body.t = "object"
  /\ "event" \in DOMAIN q.body.f
  /\ q.body.f.event.t = "string"
  /\ q.body.f.event.v # ""

(***************************************************************************)
(* C1: a failure of the analytics write never fails the primary request:   *)
(* a chat request the upstream answered with a usable body gets the        *)
(* upstream's outcome, and a valid track request gets 200, whether the     *)
(* write succeeded or was rejected.                                        *)
(***************************************************************************)
C1_SinkFailureNeverFailsRequest ==
  \A i \in 1..Len(reqs) :
    LET q == reqs[i]
    IN (q.pc = "done" /\ q.wstate \in {"done", "failed"}) =>
         IF q.kind = "track" THEN q.resp.status = 200
         ELSE IF q.r.ok
              THEN q.resp = [status |-> 200, body |-> [reply |-> Str(ContentIn(q.r.text))]]
              ELSE q.resp = [status |-> q.r.status, body |-> [error |-> q.r.text]]

(***************************************************************************)
(* C2: a chat request whose upstream response has a non-success status S   *)
(* and body B is answered S {error: B}, and exactly one event is recorded  *)
(* for it: coach_chat_error with payload {status: S, body: the first 512   *)
(* characters of B}.                                                       *)
(***************************************************************************)
C2_UpstreamErrorPassedThroughAndRecorded ==
  \A i \in 1..Len(reqs) :
    LET q == reqs[i]
    IN (q.pc = "done" /\ Answered(q) /\ ~q.r.ok) =>
         /\ q.resp = [status |-> q.r.status, body |-> [error |-> q.r.text]]
         /\ EventsOf(i) =
              << [req |-> i, event_name |-> "coach_chat_error",
                  payload |-> [status |-> q.r.status,
                               body |-> FirstChars(q.r.text, 512)]] >>

(***************************************************************************)
(* C3: a chat request whose upstream response is successful with a JSON    *)
(* body is answered 200 {reply}, reply being choices[0].message.content    *)
(* or "", and exactly one event is recorded for it: coach_chat, with       *)
(* reply_len the length of reply and prompt_len the length of the last     *)
(* sanitized user turn.                                                    *)
(***************************************************************************)
C3_SuccessRepliedAndRecorded ==
  \A i \in 1..Len(reqs) :
    LET q == reqs[i]
    IN (q.pc = "done" /\ Answered(q) /\ q.r.ok /\ IsJson(q.r.text)) =>
         /\ q.resp = [status |-> 200, body |-> [reply |-> Str(ContentIn(q.r.text))]]
         /\ Len(EventsOf(i)) = 1
         /\ EventsOf(i)[1].event_name = "coach_chat"
         /\ EventsOf(i)[1].payload.reply_len = Len(ContentIn(q.r.text))
         /\ EventsOf(i)[1].payload.prompt_len = LastUserLen(q.clean)

(***************************************************************************)
(* C4: an exception raised while a chat request is handled (the fetch      *)
(* fails at network level, or a successful response has a body that is     *)
(* not JSON) is caught: the caller gets exactly one response, 500          *)
(* {error: "Proxy error"} and nothing else, and in the parse-failure case  *)
(* no event was recorded for the request.                                  *)
(***************************************************************************)
NetworkFailed(q) == q.kind = "chat" /\ q.pc = "done" /\ q.calls = 1 /\ q.r.status = 0
ParseFailed(q) == q.pc = "done" /\ Answered(q) /\ q.r.ok /\ ~IsJson(q.r.text)

C4_ExceptionsBecomeProxyError ==
  \A i \in 1..Len(reqs) :
    LET q == reqs[i]
    IN /\ q.sent <= 1
       /\ (q.pc = "done") => (q.sent = 1)
       /\ (NetworkFailed(q) \/ ParseFailed(q)) =>
            q.resp = [status |-> 500, body |-> [error |-> "Proxy error"]]
       /\ ParseFailed(q) => (q.writes = 0 /\ EventsOf(i) = <<>>)

C4_Witness ==
  \E i, j \in 1..Len(reqs) :
    /\ ParseFailed(reqs[i]) /\ reqs[i].resp.status = 500
    /\ NetworkFailed(reqs[j]) /\ reqs[j].resp.status = 500

(***************************************************************************)
(* C5: the origin guard.  As claimed: a request whose Origin header is     *)
(* present and not one of the allow-list strings is rejected before any    *)
(* handler logic (no upstream call, no event), a request with no Origin    *)
(* header or an allowed one reaches its handler, and the allow-list never  *)
(* changes.                                                                *)
(***************************************************************************)
Untouched(i) ==
  /\ reqs[i].pc = "rejected" /\ ~reqs[i].handler
  /\ reqs[i].calls = 0 /\ reqs[i].writes = 0 /\ EventsOf(i) = <<>>

C5_Original ==
  /\ ALLOWED = AllowList
  /\ \A i \in 1..Len(reqs) :
       LET o == reqs[i].origin
       IN /\ (o.t = "string" /\ o.v \notin AllowList) => Untouched(i)
          /\ (o.t = "undefined" \/ (o.t = "string" /\ o.v \in AllowList)) =>
               (reqs[i].handler /\ reqs[i].pc # "rejected")

(***************************************************************************)
(* C5, amended: a request whose Origin header is a non-empty string that   *)
(* is not one of the allow-list strings is rejected before any handler     *)
(* logic (no upstream call, no event); a request with no Origin header,    *)
(* an empty one, or an allowed one reaches its handler; the allow-list     *)
(* never changes.                                                          *)
(***************************************************************************)
C5_OriginGuard ==
  /\ ALLOWED = AllowList
  /\ \A i \in 1..Len(reqs) :
       LET o == reqs[i].origin
       IN /\ (o.t = "string" /\ o.v # "" /\ o.v \notin AllowList) => Untouched(i)
          /\ (o.t = "undefined" \/ (o.t = "string" /\ (o.v = "" \/ o.v \in AllowList))) =>
               (reqs[i].handler /\ reqs[i].pc # "rejected")

C5_Witness ==
  \E i, j \in 1..Len(reqs) :
    /\ reqs[i].origin = Str("https://jiaruilei.github.io.evil.example")
    /\ reqs[i].pc = "rejected"
    /\ reqs[j].origin = Undef /\ reqs[j].handler

(***************************************************************************)
(* C8: with no API key configured, every chat request that gets to the     *)
(* handler is answered 500 {error: "Missing OPENAI_API_KEY"} whatever its  *)
(* body, with no upstream call and no analytics event.                     *)
(***************************************************************************)
C8_MissingKey ==
  \A i \in 1..Len(reqs) :
    LET q == reqs[i]
    IN (apiKey = "" /\ q.kind = "chat" /\ q.handler) =>
         /\ q.resp = [status |-> 500, body |-> [error |-> "Missing OPENAI_API_KEY"]]
         /\ q.sent = 1
         /\ q.calls = 0 /\ q.writes = 0 /\ EventsOf(i) = <<>>

C8_Witness ==
  \E i \in 1..Len(reqs) :
    /\ apiKey = "" /\ reqs[i].kind = "chat" /\ reqs[i].handler
    /\ reqs[i].resp.status = 500

(***************************************************************************)
(* C9: track sampling.  A request with a valid event: if the rate is below *)
(* 1 and the draw skips it, the response is {ok: true, sampled: false} and *)
(* the sink is not called; if the rate is 1 (the default), the sink is     *)
(* called once with event_name the first 64 characters of event and the    *)
(* response is 200 {ok: true}.  A request without a valid event gets 400   *)
(* and never reaches the sink.                                             *)
(***************************************************************************)
RateIsOne(q) == q.env = Undef \/ q.env = Str("1")
DrawSkips(q) == q.env = Str("0.5") /\ q.draw > 50

C9_TrackSampling ==
  \A i \in 1..Len(reqs) :
    LET q == reqs[i]
    IN (q.kind = "track" /\ q.pc = "done") =>
         /\ (ValidEvent(q) /\ DrawSkips(q)) =>
              /\ q.resp = [status |-> 200, body |-> [ok |-> TRUE, sampled |-> FALSE]]
              /\ q.writes = 0
         /\ (ValidEvent(q) /\ RateIsOne(q)) =>
              /\ q.writes = 1
              /\ q.row.event_name = FirstChars(q.body.f.event.v, 64)
              /\ q.resp = [status |-> 200, body |-> [ok |-> TRUE]]
         /\ ~ValidEvent(q) => (q.resp.status = 400 /\ q.writes = 0)

(***************************************************************************)
(* C10: no retries, and the write before the response.  In every           *)
(* interleaving of the requests in flight, a chat request makes at most    *)
(* one upstream call and records at most one event, no response is sent    *)
(* while the request's own analytics write is still in flight, and an      *)
(* upstream failure is answered after exactly one analytics write that has *)
(* ended and one upstream call.                                            *)
(***************************************************************************)
C10_NoRetryWriteBeforeRespond ==
  \A i \in 1..Len(reqs) :
    LET q == reqs[i]
    IN /\ q.calls <= 1 /\ q.writes <= 1 /\ Len(EventsOf(i)) <= 1
       /\ (q.sent >= 1) => (q.wstate # "pending")
       /\ (q.sent >= 1 /\ Answered(q) /\ ~q.r.ok) =>
            (q.writes = 1 /\ q.calls = 1 /\ q.wstate \in {"done", "failed"})

C10_Witness ==
  \E i, j \in 1..Len(reqs) :
    /\ i # j
    /\ reqs[i].pc = "done" /\ Answered(reqs[i]) /\ ~reqs[i].r.ok /\ reqs[i].writes = 1
    /\ reqs[j].pc = "db" /\ reqs[j].kind = "chat"

(***************************************************************************)
(* C7: the filtering step.  For every `messages`, the sanitized sequence   *)
(* is the subsequence of the input elements that are objects with a string *)
(* role and a string content, in their order, role and content unchanged;  *)
(* it is empty when `messages` is not an array; the sanitizer never        *)
(* raises.                                                                 *)
(***************************************************************************)
WellFormed(m) ==
  /\ m.t = "object"
  /\ {"role", "content"} \subseteq DOMAIN m.f
  /\ m.f.role.t = "string"
  /\ m.f.content.t = "string"

Survivors(messages) ==
  LET kept == IF messages.t = "array" THEN SelectSeq(messages.v, WellFormed) ELSE <<>>
  IN [i \in 1..Len(kept) |-> [role |-> kept[i].f.role.v, content |-> kept[i].f.content.v]]

C7_FilterKeepsWellFormed ==
  (san.pc \in {"filtered", "done"}) =>
    (~san.raised /\ san.clean = Survivors(san.messages))

C7_Witness ==
  /\ san.pc = "filtered"
  /\ san.messages = Arr(<<UserHi, Null, AssistantEmpty>>)
  /\ san.clean = <<[role |-> "user", content |-> "hi"],
                   [role |-> "assistant", content |-> ""]>>

(***************************************************************************)
(* C6: the system turn.  As claimed: a turn {role: "system", content:      *)
(* system} is put at the front only if `system` is a non-empty string and  *)
(* no surviving turn has role "system"; with a surviving system turn the   *)
(* output is the surviving turns, unchanged; with a non-empty string and   *)
(* no surviving system turn the output is the injected turn followed by    *)
(* the surviving turns.                                                    *)
(***************************************************************************)
NonEmptyString(x) == x.t = "string" /\ x.v # ""
SomeSystem(turns) == \E i \in 1..Len(turns) : turns[i].role = "system"

C6_Original ==
  (san.pc = "done") =>
    /\ (san.out # san.clean) => (NonEmptyString(san.system) /\ ~SomeSystem(san.clean))
    /\ SomeSystem(san.clean) => (san.out = san.clean)
    /\ (NonEmptyString(san.system) /\ ~SomeSystem(san.clean)) =>
         (san.out = <<[role |-> "system", content |-> san.system.v]>> \o san.clean)

(***************************************************************************)
(* C6, amended: a system turn is put at the front only if `system` is      *)
(* truthy (a non-empty string, or a value that is not a string and not     *)
(* undefined, null, 0 or false) and no surviving turn has role "system",   *)
(* and then the turn is {role: "system", content: String(system)}; with a  *)
(* surviving system turn the output is the surviving turns, unchanged;     *)
(* with a non-empty string and no surviving system turn the output is the  *)
(* injected turn followed by the surviving turns.                          *)
(***************************************************************************)
Supplied(x) ==
  /\ x.t \notin {"undefined", "null"}
  /\ x \notin {Str(""), Num(0), Bool(FALSE)}

AsText(x) ==
  CASE x = Num(5) -> "5"
    [] x = Bool(TRUE) -> "true"
    [] OTHER -> x.v

C6_SystemTurn ==
  (san.pc = "done") =>
    /\ (san.out # san.clean) =>
         /\ Supplied(san.system) /\ ~SomeSystem(san.clean)
         /\ san.out = <<[role |-> "system", content |-> AsText(san.system)]>> \o san.clean
    /\ SomeSystem(san.clean) => (san.out = san.clean)
    /\ (NonEmptyString(san.system) /\ ~SomeSystem(san.clean)) =>
         (san.out = <<[role |-> "system", content |-> san.system.v]>> \o san.clean)

C6_Witness ==
  /\ san.pc = "done"
  /\ san.system = Str("You are a coach")
  /\ san.clean = <<[role |-> "user", content |-> "hi"]>>
  /\ san.out = <<[role |-> "system", content |-> "You are a coach"],
                 [role |-> "user", content |-> "hi"]>>

=============================================================================
